---- MODULE Spec2Model ----
(***************************************************************************)
(* Model of the markup-preserving block translation engine of script_2.py: *)
(* the caching/retrying translation client (translate_text), the block     *)
(* translator (translate_one_block_preserve_markup) and the document       *)
(* driver (translate_full_html_blocks).                                    *)
(*                                                                         *)
(* Strings are sequences of one-character tokens.  The per-block random    *)
(* delimiter "␞<32 hex digits>␞" is the single token Delim, whose width   *)
(* in characters is DelimLen.                                              *)
(***************************************************************************)
EXTENDS Integers, Sequences, FiniteSets, TLC

(* ------------------------------ bounds --------------------------------- *)
MaxBlocks == 2
MaxCores == 2
MaxCoreLen == 2
MaxCalls == 2
MaxTextLen == 2
MaxToks == 5
MaxKids == 2
MaxRuns == 2

(* ------------------------- program constants --------------------------- *)
Retries == 4
BaseDelayTenths == 8
DelimLen == 34
MarkerLen == 5

(* ------------------------------ strings -------------------------------- *)
Delim == "D"
NoneVal == <<"None">>
Whitespace == {" "}
Letter == "a"
Langs == {"it", "en"}

(* Chess notation is modelled by lexemes: a move ("e4", "Nf3", ...), a     *)
(* move number ("1.", "12..."), a game result ("1-0", ...) and the comma.  *)
(* Marker(k) is the marker "⟬MV<k>⟭" of mask_chess_moves_in_text.  In a    *)
(* text two lexemes made of word characters are never adjacent, except     *)
(* letters, which form words (WellSpaced).                                 *)
Move == "e4"
MoveNum == "1."
ResultTok == "1-0"
Comma == ","
MarkerNames == <<"M0", "M1", "M2", "M3", "M4", "M5">>
Marker(k) == MarkerNames[k + 1]
MarkerSet == {MarkerNames[k] : k \in DOMAIN MarkerNames}

RECURSIVE Rep(_, _)
Rep(tok, n) == IF n = 0 THEN <<>> ELSE <<tok>> \o Rep(tok, n - 1)

RECURSIVE Pow2(_)
Pow2(n) == IF n = 0 THEN 1 ELSE 2 * Pow2(n - 1)

RECURSIVE LStrip(_)
LStrip(s) ==
  IF s = <<>> THEN s
  ELSE IF Head(s) \in Whitespace THEN LStrip(Tail(s)) ELSE s

RECURSIVE RStrip(_)
RStrip(s) ==
  IF s = <<>> THEN s
  ELSE IF s[Len(s)] \in Whitespace THEN RStrip(SubSeq(s, 1, Len(s) - 1)) ELSE s

(* faulty variant: the text is not trimmed                                 *)
StripNothing(s) == s

Strip(s) == RStrip(LStrip(s))

OrEmpty(t) == IF t = NoneVal \/ t = <<>> THEN <<>> ELSE t

TokLen(tok) ==
  CASE tok = Delim -> DelimLen
    [] tok \in MarkerSet -> MarkerLen
    [] tok \in {Move, MoveNum} -> 2
    [] tok = ResultTok -> 3
    [] OTHER -> 1

RECURSIVE CharLen(_)
CharLen(s) == IF s = <<>> THEN 0 ELSE TokLen(Head(s)) + CharLen(Tail(s))

RECURSIVE Join(_)
Join(items) ==
  IF items = <<>> THEN <<>>
  ELSE IF Len(items) = 1 THEN items[1]
  ELSE items[1] \o <<Delim>> \o Join(Tail(items))

(* re.split(r"\s*<delim>\s*", s): the parts between delimiters, with the   *)
(* whitespace that touches a delimiter removed; the outer ends are kept.   *)
RECURSIVE SplitRaw(_, _)
SplitRaw(s, cur) ==
  IF s = <<>> THEN <<cur>>
  ELSE IF Head(s) = Delim THEN <<cur>> \o SplitRaw(Tail(s), <<>>)
  ELSE SplitRaw(Tail(s), Append(cur, Head(s)))

SplitDelim(s) ==
  LET raw == SplitRaw(s, <<>>)
      n == Len(raw)
  IN [i \in 1..n |->
        LET a == IF i > 1 THEN LStrip(raw[i]) ELSE raw[i]
        IN IF i < n THEN RStrip(a) ELSE a]

(* -------------------------- external provider -------------------------- *)
(* translator.translate: a reply is an arbitrary string.  The replies      *)
(* considered translate every letter (one of two renderings per language)  *)
(* and keep, pad with blanks, drop or double each delimiter and each       *)
(* marker; every other token is returned as it is.  Direct calls of        *)
(* translate_text meet both renderings, the driver the first one only.     *)
DelimModes == {"keep", "pad", "drop", "dup"}
Variants == {1, 2}

TrLetter(lang, v) ==
  IF lang = "it" THEN (IF v = 1 THEN "x" ELSE "y")
  ELSE (IF v = 1 THEN "u" ELSE "w")

TrTok(tok, lang, v, mode) ==
  IF tok = Delim \/ tok \in MarkerSet THEN
    CASE mode = "keep" -> <<tok>>
      [] mode = "pad" -> <<" ", tok, " ">>
      [] mode = "drop" -> <<>>
      [] OTHER -> <<tok, tok>>
  ELSE IF tok = Letter THEN <<TrLetter(lang, v)>>
  ELSE <<tok>>

RECURSIVE ProviderReply(_, _, _, _)
ProviderReply(s, lang, v, mode) ==
  IF s = <<>> THEN <<>>
  ELSE TrTok(Head(s), lang, v, mode) \o ProviderReply(Tail(s), lang, v, mode)

(* ------------------------------- state --------------------------------- *)
VARIABLES
  cache,        \* TRANSLATION_CACHE: (text, lang) -> translated
  tt,           \* the activation of translate_text, if any
  requested,    \* a request has been sent to the provider
  polled,       \* stop_event polled since the last request or sleep ended
  stop,         \* stop_event
  pc,           \* position of the caller of translate_text
  calls,        \* completed direct calls of translate_text, in order
  drv,          \* translate_full_html_blocks: arguments and locals
  blk,          \* translate_one_block_preserve_markup: locals
  outFile,      \* what the file at out_path holds
  gui           \* create_gui: the buttons, the queue and the worker threads

vars ==
  <<cache, tt, requested, polled, stop, pc, calls, drv, blk, outFile, gui>>

EmptyCache == [k \in {} |-> <<>>]

TTIdle ==
  [pc |-> "idle", arg |-> <<>>, text |-> <<>>, lang |-> "it", attempt |-> 0,
   out |-> <<>>, exc |-> -1, reqs |-> 0, excs |-> <<>>, sleeps |-> <<>>,
   lookup |-> "none", c0 |-> EmptyCache]

TTCall(text, lang) ==
  [TTIdle EXCEPT !.pc = "call", !.arg = text, !.lang = lang, !.c0 = cache]

Key(t) == <<t.text, t.lang>>

(* lines 592-599, 876-880: no file chosen, Start and Cancel disabled, the  *)
(* queue empty, no worker thread; threads holds the position of every      *)
(* worker started, posted every item put on the queue with the run that    *)
(* put it, handled the runs whose terminal item has been polled            *)
GuiIdle ==
  [epub_path |-> NoneVal, btn_start |-> "disabled", btn_cancel |-> "disabled",
   btn_pick |-> "normal", queue |-> <<>>, threads |-> <<>>, posted |-> <<>>,
   handled |-> <<>>]

(* an element of the parsed document: tag, text, tail and children; a     *)
(* comment is a node whose tag is not a string (CommentTag)                *)
CommentTag == "!"
NoElement == [tag |-> "", text |-> NoneVal, tail |-> NoneVal, kids |-> <<>>]

(* doc tells which document is at in_path: one of prose or one with chess  *)
(* notation, of which the texts of each block's slots are drawn block      *)
(* after block, or a parsed tree, held in tree (NoElement otherwise);      *)
(* writes lists the text locations assigned so far, in order               *)
DrvIdle ==
  [doc |-> "prose", tree |-> NoElement, total |-> 0, lang |-> "it",
   max_payload_chars |-> 0,
   throttle_s |-> 0, stopAtCall |-> FALSE, bi |-> 0, done |-> 0,
   events |-> <<>>, writes |-> <<>>, terminal |-> <<>>]

(* refs: the (el, attr) pairs of the surviving slots of a block of a tree  *)
BlkIdle ==
  [block_el |-> NoElement, refs |-> <<>>,
   slots |-> <<>>, texts |-> <<>>, cores |-> <<>>, move_maps |-> <<>>,
   chunks |-> <<>>, ci |-> 0, parts |-> <<>>,
   out_parts |-> <<>>, fi |-> 0, loopOver |-> "none", fell |-> FALSE,
   written |-> FALSE]

(* ---------------------------- translate_text --------------------------- *)
(* faulty variant: the lookup key carries no language                      *)
CacheHitOtherKey(key, c) == <<key[1], "">> \in DOMAIN c

(* lines 41-47: trim, empty check, cache lookup                            *)
CacheHit(key, c) == key \in DOMAIN c

Lookup(key, c) == c[key]

TTBegin ==
  /\ tt.pc = "call"
  /\ LET text == Strip(OrEmpty(tt.arg))
         key == <<text, tt.lang>>
     IN IF text = <<>> THEN
          tt' = [tt EXCEPT !.pc = "ret", !.text = text, !.out = text]
        ELSE IF CacheHit(key, cache) THEN
          tt' = [tt EXCEPT !.pc = "ret", !.text = text, !.lookup = "hit",
                           !.out = Lookup(key, cache)]
        ELSE IF Retries <= 0 THEN
          tt' = [tt EXCEPT !.pc = "exc", !.text = text, !.lookup = "miss",
                           !.exc = -2]
        ELSE
          tt' = [tt EXCEPT !.pc = "try", !.text = text, !.lookup = "miss",
                           !.attempt = 0]
  /\ UNCHANGED <<cache, requested, polled, stop, pc, calls, drv, blk, outFile, gui>>

(* lines 52-56: the request succeeds                                       *)
ReplyVariants == IF pc = "client" THEN Variants ELSE {1}

(* faulty variant: the store replaces the cache by the new entry           *)
CacheStoreFresh(key, out, c) == (key :> out)

CacheStore(key, out, c) == (key :> out) @@ c

TTAttemptOK ==
  /\ tt.pc = "try"
  /\ \E v \in ReplyVariants, mode \in DelimModes :
       LET out == ProviderReply(tt.text, tt.lang, v, mode)
       IN /\ cache' = CacheStore(Key(tt), out, cache)
          /\ tt' = [tt EXCEPT !.pc = "ret", !.out = out, !.reqs = @ + 1]
  /\ requested' = TRUE
  /\ polled' = FALSE
  /\ UNCHANGED <<stop, pc, calls, drv, blk, outFile, gui>>

(* lines 57-61: the request fails.  The exception raised by attempt k is   *)
(* identified by k; -1 is "no exception", -2 the TypeError of "raise None" *)
(* at line 63.                                                             *)
IsFinalAttempt(attempt) == attempt = Retries - 1

(* faulty variant: the delay grows linearly                                *)
BackoffDelayLinear(attempt) == BaseDelayTenths * (attempt + 1)

BackoffDelay(attempt) == BaseDelayTenths * Pow2(attempt)

(* faulty variant: the first exception is raised instead of the last       *)
PropagatedFirst(excs) == excs[1]

Propagated(excs) == excs[Len(excs)]

TTAttemptFail ==
  /\ tt.pc = "try"
  /\ LET excs == Append(tt.excs, tt.attempt)
     IN IF IsFinalAttempt(tt.attempt) THEN
          tt' = [tt EXCEPT !.pc = "exc", !.exc = Propagated(excs),
                           !.reqs = @ + 1, !.excs = excs]
        ELSE
          tt' = [tt EXCEPT !.pc = "sleep", !.reqs = @ + 1, !.excs = excs,
                           !.sleeps = Append(@, BackoffDelay(tt.attempt))]
  /\ requested' = TRUE
  /\ polled' = FALSE
  /\ UNCHANGED <<cache, stop, pc, calls, drv, blk, outFile, gui>>

(* line 61 resumes; line 50 takes the next attempt, or the loop is over    *)
(* and line 63 raises last_exc                                             *)
TTSleep ==
  /\ tt.pc = "sleep"
  /\ IF tt.attempt + 1 < Retries THEN
       tt' = [tt EXCEPT !.pc = "try", !.attempt = @ + 1]
     ELSE
       tt' = [tt EXCEPT !.pc = "exc", !.exc = Propagated(tt.excs)]
  /\ polled' = FALSE
  /\ UNCHANGED <<cache, requested, stop, pc, calls, drv, blk, outFile, gui>>

(* ------------------- direct callers of translate_text ------------------ *)
RECURSIVE SeqsUpTo(_, _)
SeqsUpTo(S, n) ==
  IF n = 0 THEN {<<>>}
  ELSE LET shorter == SeqsUpTo(S, n - 1)
       IN shorter \cup {Append(s, x) : s \in {t \in shorter : Len(t) = n - 1},
                                       x \in S}

TextInputs == SeqsUpTo(Whitespace \cup {Letter}, MaxTextLen) \cup {NoneVal}

(* every text in the first language, one text in the second as well        *)
ClientInputs == (TextInputs \X {"it"}) \cup {<<(<<Letter>>), "en">>}

ClientCall ==
  /\ pc = "client"
  /\ tt.pc = "idle"
  /\ Len(calls) < MaxCalls
  /\ \E in \in ClientInputs : tt' = TTCall(in[1], in[2])
  /\ UNCHANGED <<cache, requested, polled, stop, pc, calls, drv, blk, outFile, gui>>

ClientReturn ==
  /\ pc = "client"
  /\ tt.pc \in {"ret", "exc"}
  /\ calls' = Append(calls, [tt EXCEPT !.c0 = EmptyCache])
  /\ tt' = TTIdle
  /\ UNCHANGED <<cache, requested, polled, stop, pc, drv, blk, outFile, gui>>

InitClient ==
  /\ cache = EmptyCache
  /\ tt = TTIdle
  /\ requested = FALSE
  /\ polled = FALSE
  /\ stop = FALSE
  /\ pc = "client"
  /\ calls = <<>>
  /\ drv = DrvIdle
  /\ blk = BlkIdle
  /\ outFile = "prior"
  /\ gui = GuiIdle

NextClient == TTBegin \/ TTAttemptOK \/ TTAttemptFail \/ TTSleep
              \/ ClientCall \/ ClientReturn

SpecClient == InitClient /\ [][NextClient]_vars

(* ------------------- chess notation: lines 354-411 --------------------- *)
RECURSIVE SkipSpaces(_, _)
SkipSpaces(text, j) ==
  IF j <= Len(text) /\ text[j] \in Whitespace THEN SkipSpaces(text, j + 1)
  ELSE j

(* CHESS_MOVE_TOKEN at position i: the position where its match ends, 0    *)
(* when there is none.  A numbered move takes the number, the whitespace   *)
(* after it and the move; a move or a result stands alone.                 *)
CHESS_MOVE_TOKEN(text, i) ==
  IF text[i] = MoveNum THEN
    LET j == SkipSpaces(text, i + 1)
    IN IF j <= Len(text) /\ text[j] = Move THEN j ELSE 0
  ELSE IF text[i] \in {Move, ResultTok} THEN i
  ELSE 0

(* lines 388-400: CHESS_MOVE_TOKEN.sub(repl, text); mapping[k + 1] is the  *)
(* text recorded under Marker(k)                                           *)
RECURSIVE MaskLoop(_, _, _, _)
MaskLoop(text, i, masked, mapping) ==
  IF i > Len(text) THEN [masked |-> masked, mapping |-> mapping]
  ELSE LET j == CHESS_MOVE_TOKEN(text, i)
       IN IF j > 0 THEN
            MaskLoop(text, j + 1, Append(masked, Marker(Len(mapping))),
                     Append(mapping, SubSeq(text, i, j)))
          ELSE MaskLoop(text, i + 1, Append(masked, text[i]), mapping)

mask_chess_moves_in_text(text) == MaskLoop(text, 1, <<>>, <<>>)

(* re.sub of one marker: every occurrence becomes v, the whitespace        *)
(* around it is kept                                                       *)
RECURSIVE SubMarker(_, _, _)
SubMarker(text, k, v) ==
  IF text = <<>> THEN <<>>
  ELSE (IF Head(text) = k THEN v ELSE <<Head(text)>>)
       \o SubMarker(Tail(text), k, v)

(* lines 403-411                                                           *)
RECURSIVE UnmaskLoop(_, _, _)
UnmaskLoop(out, mapping, n) ==
  IF n > Len(mapping) THEN out
  ELSE UnmaskLoop(SubMarker(out, Marker(n - 1), mapping[n]), mapping, n + 1)

unmask_chess_moves(text, mapping) == UnmaskLoop(text, mapping, 1)

(* re.split(r"\s+", t) of a trimmed text                                   *)
RECURSIVE SplitWhitespace(_, _)
SplitWhitespace(t, cur) ==
  IF t = <<>> THEN (IF cur = <<>> THEN <<>> ELSE <<cur>>)
  ELSE IF Head(t) \in Whitespace THEN
    (IF cur = <<>> THEN <<>> ELSE <<cur>>) \o SplitWhitespace(Tail(t), <<>>)
  ELSE SplitWhitespace(Tail(t), Append(cur, Head(t)))

(* tok.strip().strip(",;")                                                 *)
RECURSIVE StripCommas(_)
StripCommas(tok) ==
  IF tok # <<>> /\ Head(tok) = Comma THEN StripCommas(Tail(tok))
  ELSE IF tok # <<>> /\ tok[Len(tok)] = Comma THEN
    StripCommas(SubSeq(tok, 1, Len(tok) - 1))
  ELSE tok

(* lines 379-383: MOVE_NUM, RESULT_TOK or a full match of CHESS_MOVE_TOKEN *)
IsChessTok(tok) ==
  LET x == StripCommas(tok)
  IN Len(x) = 1 /\ x[1] \in {MoveNum, ResultTok, Move}

RECURSIVE ChessCount(_)
ChessCount(toks) ==
  IF toks = <<>> THEN 0
  ELSE (IF IsChessTok(Head(toks)) THEN 1 ELSE 0) + ChessCount(Tail(toks))

(* faulty variant: exactly 60% is not enough                               *)
RatioReachedStrict(chess, n) == 5 * chess > 3 * n

(* line 385: (chess / len(toks)) >= 0.60.  The quotient of two small       *)
(* integers is rounded to the double nearest to it and 0.60 is the double  *)
(* nearest to 3/5, so the comparison is that of 5 * chess with 3 * n.      *)
RatioReached(chess, n) == 5 * chess >= 3 * n

(* lines 367-385                                                           *)
looks_like_chess_line(text) ==
  LET t == Strip(OrEmpty(text))
      toks == SplitWhitespace(t, <<>>)
  IN /\ t # <<>>
     /\ Len(toks) >= 3
     /\ RatioReached(ChessCount(toks), Len(toks))

(* ------------------ translate_one_block_preserve_markup ---------------- *)
Letters == {Letter, Move, "x", "y", "u", "w"} \cup MarkerSet

has_letters(s) == \E i \in 1..Len(s) : s[i] \in Letters

split_ws(s) ==
  [pre |-> SubSeq(s, 1, Len(s) - Len(LStrip(s))),
   core |-> Strip(s),
   suf |-> SubSeq(s, Len(RStrip(s)) + 1, Len(s))]

(* faulty variant: the texts without a letter are not discarded            *)
SurvivesUnlettered(original) ==
  /\ original # <<>>
  /\ original # NoneVal
  /\ split_ws(original).core # <<>>
  /\ ~looks_like_chess_line(split_ws(original).core)

(* lines 468-487: the slots that survive                                   *)
Survives(original) ==
  /\ original # <<>>
  /\ original # NoneVal
  /\ has_letters(original)
  /\ split_ws(original).core # <<>>
  /\ ~looks_like_chess_line(split_ws(original).core)

Surviving(slots_all) == SelectSeq(slots_all, Survives)

(* lines 481, 486-487: the masked cores and their mappings                 *)
Cores(slots) ==
  [i \in 1..Len(slots) |->
     mask_chess_moves_in_text(split_ws(slots[i]).core).masked]

MoveMaps(slots) ==
  [i \in 1..Len(slots) |->
     mask_chess_moves_in_text(split_ws(slots[i]).core).mapping]

(* faulty variant: the delimiter is not counted                            *)
AddLenNoDelim(c, current) == CharLen(c)

(* lines 494-507: greedy batching under max_payload_chars                  *)
AddLen(c, current) == CharLen(c) + (IF current # <<>> THEN DelimLen ELSE 0)

RECURSIVE ChunkLoop(_, _, _, _, _, _)
ChunkLoop(cores, i, chunks, current, current_len, max_payload_chars) ==
  IF i > Len(cores) THEN
    (IF current # <<>> THEN Append(chunks, current) ELSE chunks)
  ELSE
    LET c == cores[i]
        add_len == AddLen(c, current)
    IN IF current # <<>> /\ (current_len + add_len) > max_payload_chars THEN
         ChunkLoop(cores, i + 1, Append(chunks, current), <<c>>, CharLen(c),
                   max_payload_chars)
       ELSE
         ChunkLoop(cores, i + 1, chunks, Append(current, c),
                   current_len + add_len, max_payload_chars)

(* faulty variant: the first core is left out of the batches               *)
BuildChunksFromSecond(cores, max_payload_chars) ==
  ChunkLoop(cores, 2, <<>>, <<>>, 0, max_payload_chars)

BuildChunks(cores, max_payload_chars) ==
  ChunkLoop(cores, 1, <<>>, <<>>, 0, max_payload_chars)

(* faulty variant: the parts are written back with their markers           *)
WriteBackMasked(slots, out_parts) ==
  [i \in 1..Len(slots) |->
     split_ws(slots[i]).pre \o out_parts[i] \o split_ws(slots[i]).suf]

(* lines 536-538: prefix + unmasked translation + suffix, in every slot    *)
WriteBack(slots, out_parts) ==
  [i \in 1..Len(slots) |->
     split_ws(slots[i]).pre
     \o unmask_chess_moves(
          out_parts[i],
          mask_chess_moves_in_text(split_ws(slots[i]).core).mapping)
     \o split_ws(slots[i]).suf]

(* ----------------------- translate_full_html_blocks -------------------- *)
SKIP_TAGS == {"pre", "code"}
BlockTags == {"p", "li", "pre"}

(* lines 433-453: the texts of the slots, in document order                *)
RECURSIVE rec(_)
RECURSIVE RecChildren(_)
rec(node) ==
  IF node.tag = CommentTag \/ node.tag \in SKIP_TAGS THEN <<>>
  ELSE (IF node.text # NoneVal THEN <<node.text>> ELSE <<>>)
       \o RecChildren(node.kids)

RecChildren(kids) ==
  IF kids = <<>> THEN <<>>
  ELSE LET child == Head(kids)
       IN rec(child)
          \o (IF /\ child.tag # CommentTag
                 /\ child.tag \notin SKIP_TAGS
                 /\ child.tail # NoneVal
              THEN <<child.tail>> ELSE <<>>)
          \o RecChildren(Tail(kids))

collect_text_slots_in_block(block_el) == rec(block_el)

(* lines 433-453: the (el, attr) pairs of the same slots, in the same      *)
(* order; an element is named by its path, the child indices leading to it *)
(* from the root of the document                                           *)
RECURSIVE SlotRefs(_, _)
RECURSIVE KidRefs(_, _, _)
SlotRefs(node, path) ==
  IF node.tag = CommentTag \/ node.tag \in SKIP_TAGS THEN <<>>
  ELSE (IF node.text # NoneVal THEN <<[el |-> path, attr |-> "text"]>>
        ELSE <<>>)
       \o KidRefs(node.kids, path, 1)

KidRefs(kids, path, k) ==
  IF k > Len(kids) THEN <<>>
  ELSE LET child == kids[k]
       IN SlotRefs(child, Append(path, k))
          \o (IF /\ child.tag # CommentTag
                 /\ child.tag \notin SKIP_TAGS
                 /\ child.tail # NoneVal
              THEN <<[el |-> Append(path, k), attr |-> "tail"]>> ELSE <<>>)
          \o KidRefs(kids, path, k + 1)

RECURSIVE NodeAt(_, _)
NodeAt(node, path) ==
  IF path = <<>> THEN node ELSE NodeAt(node.kids[Head(path)], Tail(path))

(* getattr(el, attr)                                                       *)
TextOf(root, ref) ==
  IF ref.attr = "text" THEN NodeAt(root, ref.el).text
  ELSE NodeAt(root, ref.el).tail

(* lines 468-487: the (el, attr) pairs of the slots that survive           *)
SurvivingRefs(root, refs) ==
  SelectSeq(refs, LAMBDA ref : Survives(TextOf(root, ref)))

(* faulty variant: the assignment reaches the other text of the element    *)
SetAttrBoth(node, attr, value) ==
  [node EXCEPT !.text = value, !.tail = value]

(* line 538: setattr(el, attr, value)                                      *)
SetAttr(node, attr, value) ==
  IF attr = "text" THEN [node EXCEPT !.text = value]
  ELSE [node EXCEPT !.tail = value]

RECURSIVE SetAt(_, _, _, _)
SetAt(node, path, attr, value) ==
  IF path = <<>> THEN SetAttr(node, attr, value)
  ELSE [node EXCEPT
          !.kids[Head(path)] = SetAt(@, Tail(path), attr, value)]

(* lines 536-538 on the tree: texts[i] is assigned to refs[i], in order    *)
RECURSIVE WriteTree(_, _, _)
WriteTree(root, refs, texts) ==
  IF refs = <<>> THEN root
  ELSE WriteTree(SetAt(root, Head(refs).el, Head(refs).attr, Head(texts)),
                 Tail(refs), Tail(texts))

(* line 549: doc.xpath(block_xpath), the selected descendants of the body  *)
(* in document order                                                       *)
RECURSIVE KidBlocks(_, _, _)
KidBlocks(kids, path, k) ==
  IF k > Len(kids) THEN <<>>
  ELSE (IF kids[k].tag \in BlockTags THEN <<Append(path, k)>> ELSE <<>>)
       \o KidBlocks(kids[k].kids, Append(path, k), 1)
       \o KidBlocks(kids, path, k + 1)

Blocks(root) == KidBlocks(root.kids, <<>>, 1)
PayloadChoices == {1, DelimLen + 2, 2 * DelimLen + 3}
ThrottleChoices == {0, 1}
(* the texts a slot of a block may hold: blank, a padded one-letter word,   *)
(* a two-letter word                                                       *)
SlotTexts == {<<" ">>, <<" ", Letter, " ">>, <<Letter, Letter>>}
(* blocks with chess notation: a numbered move alone, a line of moves,    *)
(* two texts of prose with a move or a result at their edge                *)
NumberedMove == <<" ", MoveNum, " ", Move>>
ChessLine == <<Move, " ", Move, " ", Move>>
ChessBlocks ==
  {<<NumberedMove>>, <<ChessLine>>,
   <<(<<Letter, " ", Move>>), (<<ResultTok, " ", Letter>>)>>}
(* parsed documents: a paragraph inside a list item; a paragraph with its  *)
(* own tail, a <code> child with a subtree, a text without a letter, a     *)
(* line of moves and a comment, followed by a <pre>; a paragraph that is a *)
(* line of moves, followed by one with two texts to translate.  A comma    *)
(* stands in the texts that no slot holds, and in them only                *)
El(tag, text, tail, kids) ==
  [tag |-> tag, text |-> text, tail |-> tail, kids |-> kids]
FramedDoc ==
  El("body", NoneVal, NoneVal,
     <<El("p", <<Letter, " ">>, <<Letter, Comma>>,
          <<El("code", <<Letter, Comma>>, <<Comma, Letter>>,
               <<El("i", <<Letter, Comma>>, <<Letter, Comma>>, <<>>)>>),
            El("b", <<MoveNum>>, ChessLine, <<>>),
            El(CommentTag, <<Letter, Comma>>, <<Comma, Letter>>, <<>>)>>),
       El("pre", <<Letter, Comma>>, NoneVal, <<>>)>>)
TreeDocs ==
  {El("body", NoneVal, NoneVal,
      <<El("li", <<" ", Letter>>, NoneVal,
           <<El("p", <<Letter, Letter>>, NoneVal, <<>>)>>)>>),
   FramedDoc,
   El("body", NoneVal, NoneVal,
      <<El("p", ChessLine, NoneVal, <<>>),
        El("p", <<" ", Letter>>, NoneVal,
           <<El("b", <<Letter, Letter>>, <<" ">>, <<>>)>>)>>)}

(* line 558: the tag of the block at hand                                  *)
NextTags ==
  IF drv.doc = "tree"
  THEN {NodeAt(drv.tree, Blocks(drv.tree)[drv.bi + 1]).tag}
  ELSE BlockTags

(* lines 460, 466-487: the locals of the block translator when the slots  *)
(* of the block have been collected and sifted; refs are the (el, attr)    *)
(* pairs of the surviving slots when the document is a tree                *)
Entered(slots_all, refs) ==
  LET slots == Surviving(slots_all)
  IN [BlkIdle EXCEPT !.refs = refs, !.slots = slots, !.texts = slots,
                     !.cores = Cores(slots), !.move_maps = MoveMaps(slots)]

ProseEntered == {Entered(s, <<>>) : s \in SeqsUpTo(SlotTexts, MaxCores)}
ChessEntered == {Entered(s, <<>>) : s \in ChessBlocks}

EnterInputs ==
  CASE drv.doc = "tree" ->
         LET path == Blocks(drv.tree)[drv.bi + 1]
             block_el == NodeAt(drv.tree, path)
         IN {Entered(collect_text_slots_in_block(block_el),
                     SurvivingRefs(drv.tree, SlotRefs(block_el, path)))}
    [] drv.doc = "chess" -> ChessEntered
    [] OTHER -> ProseEntered

Running == {"loop", "block", "chunk", "chunk_wait", "core", "core_wait",
            "throttle"}
Terminal == {"done", "canceled", "error"}

(* lines 545-552: read, parse, select the blocks                           *)
DriverCall ==
  /\ pc = "start"
  /\ \E n \in (IF drv.doc = "tree" THEN {Len(Blocks(drv.tree))}
               ELSE 0..MaxBlocks),
        lang \in {"it"}, m \in PayloadChoices, th \in ThrottleChoices :
       drv' = [DrvIdle EXCEPT !.doc = drv.doc, !.tree = drv.tree,
                              !.total = n, !.lang = lang,
                              !.max_payload_chars = m, !.throttle_s = th,
                              !.stopAtCall = stop]
  /\ pc' = "loop"
  /\ UNCHANGED <<cache, tt, requested, polled, stop, calls, blk, outFile, gui>>

(* faulty variant: the document is written out when the run is canceled    *)
RaiseCanceledFlushing ==
  /\ pc' = "canceled"
  /\ polled' = TRUE
  /\ outFile' = "translated"
  /\ UNCHANGED <<cache, tt, requested, stop, calls, drv, blk, gui>>

(* raise RuntimeError("Annullato")                                         *)
RaiseCanceled ==
  /\ pc' = "canceled"
  /\ polled' = TRUE
  /\ UNCHANGED <<cache, tt, requested, stop, calls, drv, blk, outFile, gui>>

(* lines 555-556                                                           *)
DriverCancel ==
  /\ pc = "loop"
  /\ drv.bi < drv.total
  /\ stop
  /\ RaiseCanceled

(* faulty variant: the event carries the count before the increment        *)
BlockDoneStale(d, label, throttled) ==
  /\ drv' = [d EXCEPT !.done = @ + 1,
                      !.events = Append(@, <<d.done, d.total, label>>),
                        !.bi = IF throttled THEN @ ELSE @ + 1]
  /\ pc' = IF throttled THEN "throttle" ELSE "loop"

(* lines 560-563 and 569-574: count the block, report, throttle            *)
(* d is the driver's state with the document as the block left it          *)
BlockDone(d, label, throttled) ==
  /\ drv' = [d EXCEPT !.done = @ + 1,
                      !.events = Append(@, <<d.done + 1, d.total, label>>),
                        !.bi = IF throttled THEN @ ELSE @ + 1]
  /\ pc' = IF throttled THEN "throttle" ELSE "loop"

(* lines 558-563                                                           *)
DriverSkipBlock ==
  /\ pc = "loop"
  /\ drv.bi < drv.total
  /\ ~stop
  /\ NextTags \cap SKIP_TAGS # {}
  /\ BlockDone(drv, "Skip", FALSE)
  /\ polled' = TRUE
  /\ UNCHANGED <<cache, tt, requested, stop, calls, blk, outFile, gui>>

(* line 565: the block translator is entered with the block's text slots   *)
DriverEnterBlock ==
  /\ pc = "loop"
  /\ drv.bi < drv.total
  /\ ~stop
  /\ NextTags \ SKIP_TAGS # {}
  /\ \E in \in EnterInputs : blk' = in
  /\ pc' = "block"
  /\ polled' = TRUE
  /\ UNCHANGED <<cache, tt, requested, stop, calls, drv, outFile, gui>>

(* lines 457-458, 566-567                                                  *)
BlockCancel ==
  /\ pc = "block"
  /\ stop
  /\ RaiseCanceled

(* lines 489-490: nothing to translate                                     *)
BlockEmpty ==
  /\ pc = "block"
  /\ ~stop
  /\ blk.slots = <<>>
  /\ BlockDone(drv, "Traduzione", drv.throttle_s > 0)
  /\ polled' = TRUE
  /\ UNCHANGED <<cache, tt, requested, stop, calls, blk, outFile, gui>>

(* lines 492-509                                                           *)
BlockBegin ==
  /\ pc = "block"
  /\ ~stop
  /\ blk.slots # <<>>
  /\ blk' = [blk EXCEPT
               !.chunks = BuildChunks(blk.cores, drv.max_payload_chars),
               !.ci = 1, !.out_parts = <<>>]
  /\ pc' = "chunk"
  /\ polled' = TRUE
  /\ UNCHANGED <<cache, tt, requested, stop, calls, drv, outFile, gui>>

(* lines 512-513                                                           *)
ChunkCancel ==
  /\ pc = "chunk"
  /\ blk.ci <= Len(blk.chunks)
  /\ stop
  /\ RaiseCanceled

(* lines 515-516                                                           *)
ChunkCall ==
  /\ pc = "chunk"
  /\ blk.ci <= Len(blk.chunks)
  /\ ~stop
  /\ tt' = TTCall(Join(blk.chunks[blk.ci]), drv.lang)
  /\ pc' = "chunk_wait"
  /\ polled' = TRUE
  /\ UNCHANGED <<cache, requested, stop, calls, drv, blk, outFile, gui>>

(* faulty variant: a batch with fewer parts than cores is accepted         *)
PartsMatchAtMost(parts, chunk) == Len(parts) <= Len(chunk)

(* faulty variant: the count of the parts is not compared                  *)
PartsMatchAlways(parts, chunk) == TRUE

(* lines 518-527; blk.fell records that a batch of the block fell back     *)
PartsMatch(parts, chunk) == Len(parts) = Len(chunk)

ChunkReturn ==
  /\ pc = "chunk_wait"
  /\ tt.pc = "ret"
  /\ LET parts == SplitDelim(tt.out)
     IN IF PartsMatch(parts, blk.chunks[blk.ci]) THEN
          /\ blk' = [blk EXCEPT !.out_parts = @ \o parts, !.ci = @ + 1]
          /\ pc' = "chunk"
        ELSE
          /\ blk' = [blk EXCEPT !.parts = <<>>, !.fi = 1, !.loopOver = "chunk",
                                !.fell = TRUE]
          /\ pc' = "core"
  /\ tt' = TTIdle
  /\ UNCHANGED <<cache, requested, polled, stop, calls, drv, outFile, gui>>

(* the list walked by a per-core loop: the chunk (522) or all cores (531)  *)
CoreList ==
  IF blk.loopOver = "chunk" THEN blk.chunks[blk.ci] ELSE blk.cores

(* lines 523-524, 532-533                                                  *)
CoreCancel ==
  /\ pc = "core"
  /\ blk.fi <= Len(CoreList)
  /\ stop
  /\ RaiseCanceled

(* lines 525, 534                                                          *)
CoreCall ==
  /\ pc = "core"
  /\ blk.fi <= Len(CoreList)
  /\ ~stop
  /\ tt' = TTCall(CoreList[blk.fi], drv.lang)
  /\ pc' = "core_wait"
  /\ polled' = TRUE
  /\ UNCHANGED <<cache, requested, stop, calls, drv, blk, outFile, gui>>

(* faulty variant: the translation of a core is written to its slot at     *)
(* once                                                                    *)
CoreReturnCommitting ==
  /\ pc = "core_wait"
  /\ tt.pc = "ret"
  /\ LET i == IF blk.loopOver = "chunk" THEN Len(blk.out_parts) + blk.fi
              ELSE blk.fi
     IN blk' = [blk EXCEPT !.parts = Append(@, tt.out), !.fi = @ + 1,
                           !.texts[i] = split_ws(blk.slots[i]).pre \o tt.out
                                        \o split_ws(blk.slots[i]).suf]
  /\ pc' = "core"
  /\ tt' = TTIdle
  /\ UNCHANGED <<cache, requested, polled, stop, calls, drv, outFile, gui>>

(* lines 525, 534: the call returns, the part is collected                 *)
CoreReturn ==
  /\ pc = "core_wait"
  /\ tt.pc = "ret"
  /\ blk' = [blk EXCEPT !.parts = Append(@, tt.out), !.fi = @ + 1]
  /\ pc' = "core"
  /\ tt' = TTIdle
  /\ UNCHANGED <<cache, requested, polled, stop, calls, drv, outFile, gui>>

(* lines 536-540, 569-574: write back, return "OK", count the block        *)
BlockWriteBack(out_parts) ==
  /\ blk' = [blk EXCEPT !.out_parts = out_parts, !.loopOver = "none",
                        !.texts = WriteBack(blk.slots, out_parts),
                        !.written = TRUE]
  /\ BlockDone([drv EXCEPT
                  !.tree = WriteTree(@, blk.refs,
                                     WriteBack(blk.slots, out_parts)),
                  !.writes = @ \o blk.refs],
               "Traduzione", drv.throttle_s > 0)

(* the per-core loop ends: line 527, or lines 536-540 after line 534       *)
CoreLoopEnd ==
  /\ pc = "core"
  /\ blk.fi > Len(CoreList)
  /\ IF blk.loopOver = "chunk" THEN
       /\ blk' = [blk EXCEPT !.out_parts = @ \o blk.parts, !.ci = @ + 1,
                             !.loopOver = "none"]
       /\ pc' = "chunk"
       /\ UNCHANGED drv
     ELSE BlockWriteBack(blk.parts)
  /\ UNCHANGED <<cache, tt, requested, polled, stop, calls, outFile, gui>>

(* lines 529-540: all chunks are translated                                *)
ChunksEnd ==
  /\ pc = "chunk"
  /\ blk.ci > Len(blk.chunks)
  /\ IF Len(blk.out_parts) # Len(blk.slots) THEN
       /\ blk' = [blk EXCEPT !.parts = <<>>, !.fi = 1, !.loopOver = "cores"]
       /\ pc' = "core"
       /\ UNCHANGED drv
     ELSE BlockWriteBack(blk.out_parts)
  /\ UNCHANGED <<cache, tt, requested, polled, stop, calls, outFile, gui>>

(* faulty variant: the failed call is made again                           *)
RaiseFatalRetrying ==
  /\ pc \in {"chunk_wait", "core_wait"}
  /\ tt.pc = "exc"
  /\ tt' = TTCall(tt.arg, tt.lang)
  /\ UNCHANGED <<cache, requested, polled, stop, pc, calls, drv, blk, outFile, gui>>

(* the exception of translate_text leaves both coroutines                  *)
RaiseFatal ==
  /\ pc \in {"chunk_wait", "core_wait"}
  /\ tt.pc = "exc"
  /\ pc' = "error"
  /\ UNCHANGED <<cache, tt, requested, polled, stop, calls, drv, blk, outFile, gui>>

(* lines 573-574: the throttle pause ends                                  *)
ThrottleEnd ==
  /\ pc = "throttle"
  /\ drv' = [drv EXCEPT !.bi = @ + 1]
  /\ pc' = "loop"
  /\ polled' = FALSE
  /\ UNCHANGED <<cache, tt, requested, stop, calls, blk, outFile, gui>>

(* lines 576-580: serialise and write the output                           *)
DriverFinish ==
  /\ pc = "loop"
  /\ drv.bi = drv.total
  /\ outFile' = "translated"
  /\ pc' = "done"
  /\ UNCHANGED <<cache, tt, requested, polled, stop, calls, drv, blk, gui>>

(* worker, lines 744-749: the item put on the queue when the driver has   *)
(* returned (DONE with the path) or raised (ERROR with str(e)): the        *)
(* RuntimeError("Annullato") of a cancellation and the exception of the    *)
(* provider are caught by the same "except Exception"                      *)
TerminalEvent(outcome) ==
  CASE outcome = "done" -> <<"DONE", "out_path">>
    [] outcome = "canceled" -> <<"ERROR", "Annullato">>
    [] OTHER -> <<"ERROR", "provider">>

WorkerReport ==
  /\ pc \in Terminal
  /\ drv.terminal = <<>>
  /\ drv' = [drv EXCEPT !.terminal = TerminalEvent(pc)]
  /\ UNCHANGED <<cache, tt, requested, polled, stop, pc, calls, blk, outFile, gui>>

(* lines 767-768: the cancel button                                        *)
Cancel ==
  /\ pc \in Running \cup {"start"}
  /\ ~stop
  /\ stop' = TRUE
  /\ UNCHANGED <<cache, tt, requested, polled, pc, calls, drv, blk, outFile, gui>>

(* ------------------ the batching of lines 494-507 alone ---------------- *)
CoreInputs == {Rep(Letter, n) : n \in 1..MaxCoreLen}
Budgets == 0..(MaxCores * (MaxCoreLen + DelimLen))

BatchEncode ==
  /\ pc = "batch"
  /\ blk' = [blk EXCEPT
               !.chunks = BuildChunks(Cores(blk.slots), drv.max_payload_chars),
               !.ci = 1, !.out_parts = <<>>]
  /\ pc' = "batched"
  /\ UNCHANGED <<cache, tt, requested, polled, stop, calls, drv, outFile, gui>>

InitBatch ==
  /\ cache = EmptyCache
  /\ tt = TTIdle
  /\ requested = FALSE
  /\ polled = FALSE
  /\ stop = FALSE
  /\ pc = "batch"
  /\ calls = <<>>
  /\ \E m \in Budgets : drv = [DrvIdle EXCEPT !.max_payload_chars = m]
  /\ \E cores \in SeqsUpTo(CoreInputs, MaxCores) :
       blk = [BlkIdle EXCEPT !.slots = cores, !.texts = cores]
  /\ outFile = "prior"
  /\ gui = GuiIdle

NextBatch == BatchEncode

SpecBatch == InitBatch /\ [][NextBatch]_vars

(* ----------- the extraction of the slots alone: lines 433-487 ---------- *)
(* the blocks: a <p> with a text and up to MaxKids children (<b>, <code>   *)
(* or a comment), a child with a text, a tail and at most one <i> in it    *)
Leaf == [tag |-> "i", text |-> <<Letter>>, tail |-> <<Letter>>, kids |-> <<>>]
ChildInputs ==
  {c \in [tag : {"b", "code", CommentTag}, text : {NoneVal, <<Letter>>},
          tail : {NoneVal, <<" ">>, <<Letter>>}, kids : {<<>>, <<Leaf>>}] :
     c.tag = CommentTag => c.kids = <<>>}
PosTexts == {NoneVal, <<" ">>, <<MoveNum>>, <<Letter>>, ChessLine}
BlockElements ==
  [tag : {"p"}, text : PosTexts, tail : {NoneVal},
   kids : SeqsUpTo(ChildInputs, MaxKids)]

(* lines 460-487: collect the slots of the block, keep those to translate  *)
ExtractSlots ==
  /\ pc = "extract"
  /\ LET slots == Surviving(collect_text_slots_in_block(blk.block_el))
     IN blk' = [blk EXCEPT !.slots = slots, !.texts = slots,
                           !.cores = Cores(slots),
                           !.move_maps = MoveMaps(slots)]
  /\ pc' = "extracted"
  /\ UNCHANGED <<cache, tt, requested, polled, stop, calls, drv, outFile, gui>>

InitSlots ==
  /\ cache = EmptyCache
  /\ tt = TTIdle
  /\ requested = FALSE
  /\ polled = FALSE
  /\ stop = FALSE
  /\ pc = "extract"
  /\ calls = <<>>
  /\ drv = DrvIdle
  /\ \E el \in BlockElements : blk = [BlkIdle EXCEPT !.block_el = el]
  /\ outFile = "prior"
  /\ gui = GuiIdle

NextSlots == ExtractSlots

SpecSlots == InitSlots /\ [][NextSlots]_vars

(* --------------- the token guard alone: lines 367-411 ------------------ *)
(* the words of a line: none (two blanks meet), a word of prose, a move,   *)
(* a move number, a result, a move with a comma, a marker written in the   *)
(* text itself                                                             *)
WordKinds ==
  {<<>>, <<Letter>>, <<Move>>, <<MoveNum>>, <<ResultTok>>, <<Move, Comma>>,
   <<Marker(0)>>}

RECURSIVE JoinWords(_)
JoinWords(words) ==
  IF words = <<>> THEN <<>>
  ELSE IF Len(words) = 1 THEN words[1]
  ELSE words[1] \o <<" ">> \o JoinWords(Tail(words))

LineInputs == {JoinWords(words) : words \in SeqsUpTo(WordKinds, MaxToks)}

(* mask_chess_moves_in_text, then unmask_chess_moves with its mapping      *)
MaskUnmask ==
  /\ pc = "guard"
  /\ LET m == mask_chess_moves_in_text(blk.slots[1])
     IN blk' = [blk EXCEPT
                  !.cores = <<m.masked>>, !.move_maps = <<m.mapping>>,
                  !.texts = <<unmask_chess_moves(m.masked, m.mapping)>>]
  /\ pc' = "masked"
  /\ UNCHANGED <<cache, tt, requested, polled, stop, calls, drv, outFile, gui>>

(* looks_like_chess_line                                                   *)
ClassifyLine ==
  /\ pc = "guard"
  /\ pc' = IF looks_like_chess_line(blk.slots[1]) THEN "chess_line"
           ELSE "other_line"
  /\ UNCHANGED <<cache, tt, requested, polled, stop, calls, drv, blk, outFile, gui>>

InitGuard ==
  /\ cache = EmptyCache
  /\ tt = TTIdle
  /\ requested = FALSE
  /\ polled = FALSE
  /\ stop = FALSE
  /\ pc = "guard"
  /\ calls = <<>>
  /\ drv = DrvIdle
  /\ \E text \in LineInputs :
       blk = [BlkIdle EXCEPT !.slots = <<text>>, !.texts = <<text>>]
  /\ outFile = "prior"
  /\ gui = GuiIdle

NextGuard == MaskUnmask \/ ClassifyLine

SpecGuard == InitGuard /\ [][NextGuard]_vars

Init ==
  /\ cache = EmptyCache
  /\ tt = TTIdle
  /\ requested = FALSE
  /\ polled = FALSE
  /\ stop = FALSE
  /\ pc = "start"
  /\ calls = <<>>
  /\ drv = DrvIdle
  /\ blk = BlkIdle
  /\ outFile = "prior"
  /\ gui = GuiIdle

Next ==
  \/ TTBegin \/ TTAttemptOK \/ TTAttemptFail \/ TTSleep
  \/ DriverCall \/ DriverCancel \/ DriverSkipBlock \/ DriverEnterBlock
  \/ BlockCancel \/ BlockEmpty \/ BlockBegin
  \/ ChunkCancel \/ ChunkCall \/ ChunkReturn \/ ChunksEnd
  \/ CoreCancel \/ CoreCall \/ CoreReturn \/ CoreLoopEnd
  \/ RaiseFatal \/ ThrottleEnd \/ DriverFinish \/ WorkerReport \/ Cancel

Spec == Init /\ [][Next]_vars

(* the driver on a document whose blocks hold chess notation               *)
InitChess ==
  /\ cache = EmptyCache
  /\ tt = TTIdle
  /\ requested = FALSE
  /\ polled = FALSE
  /\ stop = FALSE
  /\ pc = "start"
  /\ calls = <<>>
  /\ drv = [DrvIdle EXCEPT !.doc = "chess"]
  /\ blk = BlkIdle
  /\ outFile = "prior"
  /\ gui = GuiIdle

SpecChess == InitChess /\ [][Next]_vars

(* the driver on a parsed document                                         *)
InitTree ==
  /\ cache = EmptyCache
  /\ tt = TTIdle
  /\ requested = FALSE
  /\ polled = FALSE
  /\ stop = FALSE
  /\ pc = "start"
  /\ calls = <<>>
  /\ \E t \in TreeDocs : drv = [DrvIdle EXCEPT !.doc = "tree", !.tree = t]
  /\ blk = BlkIdle
  /\ outFile = "prior"
  /\ gui = GuiIdle

SpecTree == InitTree /\ [][Next]_vars

(* the steps of the worker thread: every request returns or fails, every   *)
(* sleep ends and the coroutines go on; the cancel button may or may not   *)
(* be pressed                                                              *)
WorkerSteps ==
  \/ TTBegin \/ TTAttemptOK \/ TTAttemptFail \/ TTSleep
  \/ DriverCall \/ DriverCancel \/ DriverSkipBlock \/ DriverEnterBlock
  \/ BlockCancel \/ BlockEmpty \/ BlockBegin
  \/ ChunkCancel \/ ChunkCall \/ ChunkReturn \/ ChunksEnd
  \/ CoreCancel \/ CoreCall \/ CoreReturn \/ CoreLoopEnd
  \/ RaiseFatal \/ ThrottleEnd \/ DriverFinish \/ WorkerReport

SpecLive == InitChess /\ [][Next]_vars /\ WF_vars(WorkerSteps)

(* ------------------- create_gui: lines 585-880 ------------------------- *)
(* queue.put by the worker of run r; an item is its kind and, for the      *)
(* record, the run that put it                                             *)
Post(g, r, kinds) ==
  LET items == [i \in 1..Len(kinds) |-> [kind |-> kinds[i], run |-> r]]
  IN [g EXCEPT !.queue = @ \o items, !.posted = @ \o items]

(* faulty variant: Start is left enabled during a run                      *)
SetUiRunningStartOn(g, running) ==
  IF running THEN [g EXCEPT !.btn_cancel = "normal", !.btn_pick = "disabled"]
  ELSE [g EXCEPT !.btn_start = IF g.epub_path # NoneVal THEN "normal"
                               ELSE "disabled",
                 !.btn_cancel = "disabled", !.btn_pick = "normal"]

(* lines 655-665                                                           *)
SetUiRunning(g, running) ==
  IF running THEN [g EXCEPT !.btn_start = "disabled", !.btn_cancel = "normal",
                            !.btn_pick = "disabled"]
  ELSE [g EXCEPT !.btn_start = IF g.epub_path # NoneVal THEN "normal"
                               ELSE "disabled",
                 !.btn_cancel = "disabled", !.btn_pick = "normal"]

(* lines 627-637: a file is chosen in the dialog                           *)
ChooseEpub ==
  /\ pc = "gui"
  /\ gui.btn_pick = "normal"
  /\ gui' = [gui EXCEPT !.epub_path = <<"book">>, !.btn_start = "normal"]
  /\ UNCHANGED <<cache, tt, requested, polled, stop, pc, calls, drv, blk,
                 outFile>>

(* lines 751-765: the Start button                                         *)
GuiStart ==
  /\ pc = "gui"
  /\ gui.btn_start = "normal"
  /\ Len(gui.threads) < MaxRuns
  /\ IF gui.epub_path = NoneVal THEN UNCHANGED <<stop, gui>>
     ELSE /\ stop' = FALSE
          /\ gui' = [SetUiRunning(gui, TRUE) EXCEPT
                       !.threads = Append(@, [pc |-> "read", n |-> 0])]
  /\ UNCHANGED <<cache, tt, requested, polled, pc, calls, drv, blk, outFile>>

(* lines 767-770: the Cancel button                                        *)
GuiCancel ==
  /\ pc = "gui"
  /\ gui.btn_cancel = "normal"
  /\ stop' = TRUE
  /\ UNCHANGED <<cache, tt, requested, polled, pc, calls, drv, blk, outFile,
                 gui>>

IsTerminalItem(item) == item.kind \in {"DONE", "ERROR"}

(* lines 772-810: the items on the queue are taken and handled in order;   *)
(* DONE and ERROR call set_ui_running(False)                               *)
PollQueue ==
  /\ pc = "gui"
  /\ gui.queue # <<>>
  /\ LET ends == SelectSeq(gui.queue, IsTerminalItem)
     IN gui' = [(IF ends # <<>> THEN SetUiRunning(gui, FALSE) ELSE gui) EXCEPT
                  !.queue = <<>>,
                  !.handled = @ \o [i \in 1..Len(ends) |-> ends[i].run]]
  /\ UNCHANGED <<cache, tt, requested, polled, stop, pc, calls, drv, blk,
                 outFile>>

(* lines 685-719, 748-749: read the book, export, make full.html; a stage  *)
(* after the first begins with the test of stop_event; puts is what the    *)
(* stage puts on the queue when it succeeds, by the options chosen, and    *)
(* raises what it has put when one of its calls raises                     *)
WorkerStage(r) ==
  /\ pc = "gui"
  /\ gui.threads[r].pc \in {"read", "export", "full"}
  /\ LET stage == gui.threads[r].pc
         puts ==
           CASE stage = "read" -> {<<"STATUS">>}
             [] stage = "export" ->
                  {<<>>, <<"STATUS", "LOG">>, <<"LOG", "STATUS", "LOG">>}
             [] OTHER -> {<<>>, <<"STATUS", "LOG">>}
         raises ==
           CASE stage = "export" ->
                  {<<"STATUS", "ERROR">>, <<"LOG", "STATUS", "ERROR">>}
             [] OTHER -> {<<"STATUS", "ERROR">>}
         next ==
           CASE stage = "read" -> "export" [] stage = "export" -> "full"
             [] OTHER -> "translate"
     IN IF stage # "read" /\ stop THEN
          gui' = [Post(gui, r, <<"ERROR">>) EXCEPT !.threads[r].pc = "ended"]
        ELSE
          \/ \E kinds \in puts :
               gui' = [Post(gui, r, kinds) EXCEPT
                         !.threads[r].pc = next]
          \/ \E kinds \in raises :
               gui' = [Post(gui, r, kinds) EXCEPT !.threads[r].pc = "ended"]
  /\ UNCHANGED <<cache, tt, requested, polled, stop, pc, calls, drv, blk,
                 outFile>>

(* lines 718-728, 744-749: the last test of stop_event, then the driver is *)
(* called, or DONE is put when nothing is to translate, or reading the     *)
(* options raises                                                          *)
WorkerTranslate(r) ==
  /\ pc = "gui"
  /\ gui.threads[r].pc = "translate"
  /\ IF stop THEN
       gui' = [Post(gui, r, <<"ERROR">>) EXCEPT !.threads[r].pc = "ended"]
     ELSE
       \/ gui' = [Post(gui, r, <<"STATUS">>) EXCEPT !.threads[r].pc = "driver"]
       \/ gui' = [Post(gui, r, <<"DONE">>) EXCEPT !.threads[r].pc = "ended"]
       \/ gui' = [Post(gui, r, <<"ERROR">>) EXCEPT !.threads[r].pc = "ended"]
  /\ UNCHANGED <<cache, tt, requested, polled, stop, pc, calls, drv, blk,
                 outFile>>

(* lines 667-668: progress_cb, called by the driver after a block          *)
WorkerProgress(r) ==
  /\ pc = "gui"
  /\ gui.threads[r].pc = "driver"
  /\ gui.threads[r].n < MaxBlocks
  /\ gui' = [Post(gui, r, <<"PROGRESS">>) EXCEPT !.threads[r].n = @ + 1]
  /\ UNCHANGED <<cache, tt, requested, polled, stop, pc, calls, drv, blk,
                 outFile>>

(* lines 730-743, 748-749: the driver returns or raises; it raises         *)
(* "Annullato" only when stop_event is set                                 *)
WorkerDriverEnd(r) ==
  /\ pc = "gui"
  /\ gui.threads[r].pc = "driver"
  /\ \E outcome \in {"done", "error"} \cup (IF stop THEN {"canceled"} ELSE {}) :
       gui' = [Post(gui, r, <<TerminalEvent(outcome)[1]>>) EXCEPT
                 !.threads[r].pc = "ended"]
  /\ UNCHANGED <<cache, tt, requested, polled, stop, pc, calls, drv, blk,
                 outFile>>

InitGui ==
  /\ cache = EmptyCache
  /\ tt = TTIdle
  /\ requested = FALSE
  /\ polled = FALSE
  /\ stop = FALSE
  /\ pc = "gui"
  /\ calls = <<>>
  /\ drv = DrvIdle
  /\ blk = BlkIdle
  /\ outFile = "prior"
  /\ gui = GuiIdle

NextGui ==
  \/ ChooseEpub \/ GuiStart \/ GuiCancel \/ PollQueue
  \/ \E r \in 1..Len(gui.threads) :
       \/ WorkerStage(r) \/ WorkerTranslate(r)
       \/ WorkerProgress(r) \/ WorkerDriverEnd(r)

SpecGui == InitGui /\ [][NextGui]_vars

(* ------------------------------ properties ----------------------------- *)
IsBlank(arg) == arg = NoneVal \/ \A i \in 1..Len(arg) : arg[i] \in Whitespace

SameCall(a, b) == a.arg = b.arg /\ a.lang = b.lang

Answered(c) == c.reqs - Len(c.excs)

(* what the provider may reply to a request for one core                   *)
Translations(core, lang) ==
  {ProviderReply(core, lang, 1, mode) : mode \in DelimModes}

(* the block's texts have been written back (lines 536-538)                *)
Written == blk.written

(* a masked core that holds markers and whitespace only                    *)
PureNotation(core) ==
  /\ core # <<>>
  /\ \A j \in 1..Len(core) : core[j] \in MarkerSet \cup Whitespace

(* the writable text positions of a block: <<0, 0, a>> in the block,      *)
(* <<i, 0, a>> in its i-th child, <<i, j, a>> in the j-th child of that,   *)
(* a the text or the tail; none in or after a comment or a skipped element *)
Live(node) == node.tag # CommentTag /\ node.tag \notin SKIP_TAGS

Positions(b) ==
  {<<0, 0, "text">>}
  \cup {<<i, 0, a>> : i \in {k \in 1..Len(b.kids) : Live(b.kids[k])},
                      a \in {"text", "tail"}}
  \cup {p \in (1..Len(b.kids)) \X {1} \X {"text", "tail"} :
          /\ Live(b.kids[p[1]])
          /\ b.kids[p[1]].kids # <<>>
          /\ Live(b.kids[p[1]].kids[1])}

TextAt(b, p) ==
  LET node == IF p[1] = 0 THEN b
              ELSE IF p[2] = 0 THEN b.kids[p[1]]
              ELSE b.kids[p[1]].kids[p[2]]
  IN IF p[3] = "text" THEN node.text ELSE node.tail

(* a text whose trimmed form holds a letter                                *)
Lettered(x) == x # NoneVal /\ has_letters(Strip(x))

(* the items of all batches, in batch order (what line 527 accumulates)    *)
RECURSIVE Flatten(_)
Flatten(chunks) ==
  IF chunks = <<>> THEN <<>> ELSE Head(chunks) \o Flatten(Tail(chunks))

(* C1: when stop_event is already set at the time the driver is called,    *)
(* the call ends canceled, the output file is not written and no request   *)
(* is sent to the provider, for every document, also one with no block.    *)
C1_CancelBeforeCall ==
  (drv.stopAtCall /\ pc \in Terminal) =>
    (pc = "canceled" /\ outFile = "prior" /\ ~requested)

(* C2: a driver call during which stop_event was set never completes       *)
(* normally (never ends with the output written).                          *)
C2_CancelDuringCall ==
  pc = "done" => ~(stop /\ ~drv.stopAtCall)

(* C3: every request sent to the provider, retries included, is preceded   *)
(* by a poll of stop_event made after the previous request or sleep ended. *)
C3_PollBeforeEveryRequest ==
  [][tt'.reqs = tt.reqs + 1 => polled]_vars

(* C4: the output file is written only after every selected block has     *)
(* been processed; a run that ends canceled or with a fatal error has not  *)
(* written it and leaves the previous file as it was.                      *)
C4_NoPartialOutput ==
  /\ pc \in {"canceled", "error"} => outFile = "prior"
  /\ outFile = "translated" =>
       (pc = "done" /\ drv.done = drv.total /\ drv.bi = drv.total)
  /\ pc \in Running \cup {"start"} => outFile = "prior"

C4_Witness ==
  pc \in {"canceled", "error"} /\ drv.done >= 1 /\ requested

(* C5 as stated: two calls in sequence with the same (text, language)      *)
(* send at most one request in total, whatever the provider does, and both *)
(* return the same output.                                                 *)
C5_AtMostOneRequestAlways ==
  \A i \in 1..(Len(calls) - 1) :
    SameCall(calls[i], calls[i + 1]) =>
      /\ calls[i].reqs + calls[i + 1].reqs <= 1
      /\ calls[i].pc = "ret" /\ calls[i + 1].pc = "ret"
      /\ calls[i].out = calls[i + 1].out

(* C5 amended: of two calls in sequence with the same (text, language),    *)
(* when the first returns, the second sends no request and returns the     *)
(* same output; the provider answers at most one request of the two calls  *)
(* and the first sends at most Retries requests.                           *)
C5_CacheProperty ==
  \A i \in 1..(Len(calls) - 1) :
    (SameCall(calls[i], calls[i + 1]) /\ calls[i].pc = "ret") =>
      /\ calls[i + 1].pc = "ret"
      /\ calls[i + 1].reqs = 0
      /\ calls[i + 1].out = calls[i].out
      /\ calls[i].reqs <= Retries
      /\ Answered(calls[i]) + Answered(calls[i + 1]) <= 1

C5_Witness ==
  /\ Len(calls) = 2
  /\ SameCall(calls[1], calls[2])
  /\ calls[1].pc = "ret" /\ calls[1].reqs >= 2
  /\ calls[2].lookup = "hit"

(* C6: the cache is append-only: no step removes or changes a stored       *)
(* entry, a call that fails leaves the cache as it was when the call       *)
(* began, and a later call with a stored key (trimmed text, language)      *)
(* returns the stored value without a request.                             *)
C6_CacheAppendOnly ==
  /\ [][/\ \A k \in DOMAIN cache : k \in DOMAIN cache' /\ cache'[k] = cache[k]
        /\ tt'.pc = "exc" => cache' = tt.c0]_vars
  /\ [](\A i \in 1..Len(calls), j \in 1..Len(calls) :
          (/\ i < j
           /\ calls[i].pc = "ret"
           /\ ~IsBlank(calls[i].arg)
           /\ LStrip(RStrip(calls[i].arg)) = LStrip(RStrip(calls[j].arg))
           /\ calls[i].lang = calls[j].lang) =>
            /\ calls[j].pc = "ret"
            /\ calls[j].reqs = 0
            /\ calls[j].out = calls[i].out
            /\ <<LStrip(RStrip(calls[i].arg)), calls[i].lang>> \in DOMAIN cache
            /\ cache[<<LStrip(RStrip(calls[i].arg)), calls[i].lang>>]
                 = calls[i].out)

C6_Witness ==
  /\ Len(calls) = 2
  /\ calls[1].pc = "ret" /\ calls[1].reqs >= 1
  /\ calls[1].arg # calls[2].arg
  /\ calls[2].lookup = "hit"
  /\ Cardinality(DOMAIN cache) = 1

(* C7: on a cache miss translate_text sends between 1 and Retries          *)
(* requests; a failure of a non-final attempt is followed by the next      *)
(* attempt; the first success ends the call with that reply; when all      *)
(* Retries attempts fail the exception of the final attempt propagates.    *)
C7_RetryBound ==
  /\ [](/\ (tt.lookup = "miss" /\ tt.pc = "ret") =>
             /\ tt.reqs >= 1 /\ tt.reqs <= Retries
             /\ Answered(tt) = 1
             /\ tt.excs = [k \in 1..(tt.reqs - 1) |-> k - 1]
             /\ \E v \in Variants, mode \in DelimModes :
                  tt.out = ProviderReply(tt.text, tt.lang, v, mode)
        /\ tt.pc = "exc" =>
             /\ tt.reqs = Retries
             /\ Answered(tt) = 0
             /\ tt.exc = Retries - 1
        /\ tt.lookup = "miss" => tt.reqs <= Retries)
  /\ [][/\ (tt.pc = "try" /\ tt'.excs # tt.excs /\ tt.attempt < Retries - 1) =>
             tt'.pc = "sleep"
        /\ (tt.pc = "sleep" /\ tt' # tt) =>
             (tt'.pc = "try" /\ tt'.attempt = tt.attempt + 1)]_vars

C7_Witness ==
  /\ Len(calls) = 2
  /\ calls[1].pc = "exc" /\ calls[1].reqs = Retries
  /\ calls[2].pc = "ret" /\ calls[2].reqs = Retries

(* C8: a backoff sleep happens only between two consecutive attempts:      *)
(* none before the first attempt, none after the final failed attempt;     *)
(* the sleep after failed attempt k lasts base_delay * 2^k, so the delays  *)
(* of one call strictly increase.                                          *)
C8_BackoffPlacement ==
  /\ tt.pc = "try" => (Len(tt.sleeps) = tt.attempt /\ tt.reqs = tt.attempt)
  /\ tt.pc = "sleep" => Len(tt.sleeps) = tt.reqs
  /\ (tt.pc \in {"ret", "exc"} /\ tt.reqs >= 1) => Len(tt.sleeps) = tt.reqs - 1
  /\ tt.reqs = 0 => tt.sleeps = <<>>
  /\ \A k \in 1..Len(tt.sleeps) :
       /\ tt.sleeps[k] = BaseDelayTenths * (2 ^ (k - 1))
       /\ k > 1 => tt.sleeps[k] > tt.sleeps[k - 1]

C8_Witness ==
  tt.pc = "exc" /\ Len(tt.sleeps) = Retries - 1

(* C9 as stated: a text that is empty after trimming (empty, blank or      *)
(* missing) is returned unchanged, without a request and without reading   *)
(* or writing the cache.                                                   *)
C9_EmptyInputUnchanged ==
  (tt.pc \in {"ret", "exc"} /\ IsBlank(tt.arg)) =>
    /\ tt.pc = "ret" /\ tt.out = tt.arg
    /\ tt.reqs = 0 /\ tt.lookup = "none" /\ cache = tt.c0

(* C9 amended: for a text that is empty after trimming the call returns    *)
(* the empty string (the trimmed text), sends no request and neither reads *)
(* nor writes the cache.                                                   *)
C9_EmptyInputReturnsEmpty ==
  (tt.pc \in {"ret", "exc"} /\ IsBlank(tt.arg)) =>
    /\ tt.pc = "ret" /\ tt.out = <<>>
    /\ tt.reqs = 0 /\ tt.lookup = "none" /\ cache = tt.c0

C9_Witness ==
  /\ tt.pc = "ret"
  /\ tt.arg \in {NoneVal, <<" ">>}
  /\ cache # EmptyCache

(* C10: every batch of the block translator has a joined payload (cores    *)
(* and the delimiters between them) of at most max_payload_chars           *)
(* characters, unless it consists of one core that alone exceeds it.       *)
C10_BatchBudget ==
  \A k \in 1..Len(blk.chunks) :
    \/ CharLen(Join(blk.chunks[k])) <= drv.max_payload_chars
    \/ /\ Len(blk.chunks[k]) = 1
       /\ CharLen(blk.chunks[k][1]) > drv.max_payload_chars

C10_Witness ==
  /\ pc = "batched"
  /\ Len(blk.chunks) >= 2
  /\ \E k \in 1..Len(blk.chunks) :
       /\ Len(blk.chunks[k]) = 1
       /\ CharLen(blk.chunks[k][1]) > drv.max_payload_chars

(* C11: the batches are an order-preserving partition of the cores: the    *)
(* items of all batches, concatenated in batch order, are exactly the list *)
(* of cores (nothing dropped, duplicated or reordered) and no batch is     *)
(* empty.                                                                  *)
C11_BatchPartition ==
  pc = "batched" =>
    /\ Flatten(blk.chunks) = Cores(blk.slots)
    /\ \A k \in 1..Len(blk.chunks) : blk.chunks[k] # <<>>

C11_Witness ==
  /\ pc = "batched"
  /\ Len(blk.slots) = MaxCores
  /\ Len(blk.chunks) = MaxCores
  /\ blk.slots[1] # blk.slots[2]

(* C12: when the translated payload of a batch splits on the delimiter     *)
(* into a number of parts different from the number of cores of the batch, *)
(* the batch result is discarded and each core of that batch is translated *)
(* by its own translate_text call, in order; slot i of the block receives  *)
(* the translation of core i, for every i.                                 *)
C12_MismatchFallback ==
  /\ [][(pc = "chunk_wait" /\ tt.pc = "ret" /\ pc' # pc) =>
          IF Len(SplitDelim(tt.out)) # Len(blk.chunks[blk.ci]) THEN
            /\ pc' = "core"
            /\ blk'.loopOver = "chunk" /\ blk'.fi = 1 /\ blk'.parts = <<>>
            /\ blk'.out_parts = blk.out_parts /\ blk'.ci = blk.ci
          ELSE
            /\ pc' = "chunk"
            /\ blk'.out_parts = blk.out_parts \o SplitDelim(tt.out)]_vars
  /\ [](blk.loopOver = "chunk" =>
          /\ Len(blk.parts) = blk.fi - 1
          /\ \A j \in 1..Len(blk.parts) :
               blk.parts[j] \in Translations(blk.chunks[blk.ci][j], drv.lang)
          /\ (pc = "core_wait" /\ tt.pc # "idle") =>
               tt.arg = blk.chunks[blk.ci][blk.fi]
          /\ Len(blk.out_parts) =
               Len(Flatten(SubSeq(blk.chunks, 1, blk.ci - 1))))
  /\ []((Written /\ blk.fell) =>
          \A i \in 1..Len(blk.slots) :
            \E t \in Translations(blk.cores[i], drv.lang) :
              blk.texts[i] =
                split_ws(blk.slots[i]).pre
                \o unmask_chess_moves(t, blk.move_maps[i])
                \o split_ws(blk.slots[i]).suf)

C12_Witness ==
  /\ Written /\ blk.fell
  /\ Len(blk.slots) = 2
  /\ Len(blk.chunks) = 1
  /\ blk.slots[1] # blk.slots[2]

(* C13: one progress event (done, total, label) is emitted after every     *)
(* block, skipped or translated; the k-th event carries done = k and the   *)
(* run's total; the event of a block comes after all provider requests and *)
(* the write-back of that block and before any request of the next block;  *)
(* a run that completes normally has emitted exactly total events, the     *)
(* last with done = total.                                                 *)
C13_ProgressEvents ==
  /\ [](/\ Len(drv.events) = drv.done
        /\ \A k \in 1..Len(drv.events) :
             /\ drv.events[k][1] = k
             /\ drv.events[k][2] = drv.total
             /\ drv.events[k][3] \in {"Skip", "Traduzione"}
        /\ pc \in (Running \ {"throttle"}) => drv.done = drv.bi
        /\ pc = "throttle" => drv.done = drv.bi + 1
        /\ pc = "done" =>
             /\ Len(drv.events) = drv.total
             /\ drv.total > 0 => drv.events[drv.total][1] = drv.total)
  /\ [][/\ Len(drv.events') # Len(drv.events) =>
             /\ Len(drv.events') = Len(drv.events) + 1
             /\ SubSeq(drv.events', 1, Len(drv.events)) = drv.events
             /\ tt.pc = "idle" /\ tt'.pc = "idle"
             /\ pc \in {"loop", "block", "chunk", "core"}
             /\ pc' \in {"loop", "throttle"}
             /\ pc \in {"chunk", "core"} =>
                  (blk'.texts = WriteBack(blk.slots, blk'.out_parts)
                   /\ Len(blk'.out_parts) = Len(blk.slots))
             /\ pc = "loop" => drv.events'[Len(drv.events')][3] = "Skip"
        /\ tt'.reqs = tt.reqs + 1 => Len(drv.events) = drv.bi
        /\ (pc \in {"loop", "throttle"} /\ drv'.bi = drv.bi + 1) =>
             Len(drv.events') = drv.bi + 1]_vars

C13_Witness ==
  /\ pc = "done"
  /\ drv.total = 2
  /\ drv.events[1][3] = "Skip"
  /\ drv.events[2][3] = "Traduzione"
  /\ requested

(* C14: when the selector matches no block the driver does not fail: it    *)
(* sends no request, returns the document with no text changed, and emits  *)
(* a progress report with done = 0 and total = 0.                          *)
C14_ZeroBlocksReport ==
  (pc \in Terminal /\ drv.total = 0) =>
    /\ pc = "done"
    /\ ~requested
    /\ blk = BlkIdle
    /\ \E k \in 1..Len(drv.events) :
         drv.events[k][1] = 0 /\ drv.events[k][2] = 0

(* C15: translating a block whose cores consist only of chess notation     *)
(* (every core is empty of translatable text once masked, whatever its     *)
(* number of tokens) changes no text of the block, whatever the provider   *)
(* replies.                                                                *)
C15_PureNotationUnchanged ==
  (\A i \in 1..Len(blk.slots) : PureNotation(blk.cores[i])) =>
    blk.texts = blk.slots

(* C16: for every text, unmask_chess_moves applied to the pair (masked,    *)
(* mapping) that mask_chess_moves_in_text returns yields the text; the     *)
(* k-th recognised token (from 0) is replaced by the marker numbered k;    *)
(* the markers of one call are pairwise distinct; a text with no           *)
(* recognised token is returned unchanged with an empty mapping.           *)
C16_MaskRoundTrip ==
  pc = "masked" =>
    LET text == blk.slots[1]
        masked == blk.cores[1]
        mapping == blk.move_maps[1]
        IsMarker(tok) == tok \in MarkerSet
    IN /\ blk.texts[1] = text
       /\ SelectSeq(text, IsMarker) = <<>> =>
            SelectSeq(masked, IsMarker)
              = [k \in 1..Len(mapping) |-> Marker(k - 1)]
       /\ \A j \in 1..Len(mapping), k \in 1..Len(mapping) :
            j # k => Marker(j - 1) # Marker(k - 1)
       /\ (\A i \in 1..Len(text) : CHESS_MOVE_TOKEN(text, i) = 0) =>
            (masked = text /\ mapping = <<>>)

(* C17: looks_like_chess_line is true exactly when the trimmed line has at *)
(* least 3 whitespace-separated tokens and the tokens that are a move, a   *)
(* move number or a result are at least 60% of them (5 * chess >= 3 *      *)
(* tokens; exactly 60% is a chess line); a line of fewer than 3 tokens is  *)
(* never a chess line.                                                     *)
C17_ChessLineThreshold ==
  pc \in {"chess_line", "other_line"} =>
    LET t == blk.slots[1]
        Blank(i) == t[i] \in Whitespace
        Starts == {i \in 1..Len(t) : ~Blank(i) /\ (i = 1 \/ Blank(i - 1))}
        End(i) == CHOOSE j \in i..Len(t) :
                    /\ \A k \in i..j : ~Blank(k)
                    /\ j = Len(t) \/ Blank(j + 1)
        Matching(i) ==
          \E p \in i..End(i) :
            /\ t[p] \in {Move, MoveNum, ResultTok}
            /\ \A k \in (i..End(i)) \ {p} : t[k] = Comma
        tokens == Cardinality(Starts)
        chess == Cardinality({i \in Starts : Matching(i)})
    IN /\ pc = "chess_line" <=> (tokens >= 3 /\ 5 * chess >= 3 * tokens)
       /\ tokens < 3 => pc = "other_line"

C17_Witness ==
  /\ pc = "chess_line"
  /\ Len(SplitWhitespace(Strip(blk.slots[1]), <<>>)) = 5
  /\ ChessCount(SplitWhitespace(Strip(blk.slots[1]), <<>>)) = 3

(* C18 as stated: the number of slots the block translator extracts for    *)
(* translation equals the number of writable text positions of the block   *)
(* whose trimmed text holds at least one letter; a position holding only   *)
(* whitespace or only non-letter characters never becomes a slot.          *)
C18_SlotCountLettered ==
  pc = "extracted" =>
    /\ Len(blk.slots) =
         Cardinality({p \in Positions(blk.block_el) :
                        Lettered(TextAt(blk.block_el, p))})
    /\ \A i \in 1..Len(blk.slots) : Lettered(blk.slots[i])

(* C18 amended: the number of slots extracted for translation equals the   *)
(* number of writable text positions whose trimmed text holds at least one *)
(* letter and is not a whole line of chess notation; a position holding    *)
(* only whitespace or only non-letter characters never becomes a slot.     *)
C18_SlotCountTranslatable ==
  pc = "extracted" =>
    /\ Len(blk.slots) =
         Cardinality({p \in Positions(blk.block_el) :
                        /\ Lettered(TextAt(blk.block_el, p))
                        /\ ~looks_like_chess_line(
                              Strip(TextAt(blk.block_el, p)))})
    /\ \A i \in 1..Len(blk.slots) :
         /\ Lettered(blk.slots[i])
         /\ ~looks_like_chess_line(Strip(blk.slots[i]))

C18_Witness ==
  /\ pc = "extracted"
  /\ blk.block_el.text = ChessLine
  /\ Len(blk.block_el.kids) = 2
  /\ blk.block_el.kids[1].tag = "code"
  /\ blk.block_el.kids[2].tail = <<" ">>
  /\ Len(blk.slots) = 3

(* C19: a run ended by cancellation is reported with an outcome kind       *)
(* different from the one used for a fatal translation error, also in the  *)
(* terminal event delivered to the caller, so that a consumer can tell the *)
(* two apart without reading the message.                                  *)
C19_CancelDistinguished ==
  (pc = "canceled" /\ drv.terminal # <<>>) =>
    drv.terminal[1] # TerminalEvent("error")[1]

(* C20 as stated: with a provider that translates every delimited piece    *)
(* on its own and returns the delimiters, after a block translation        *)
(* without fallback every slot i holds prefix_i + unmask(T(core_i)) +      *)
(* suffix_i, T(core_i) being what the provider replies to core_i alone,    *)
(* for every max_payload_chars: the result does not depend on the batches. *)
C20_BatchedEqualsPerCore ==
  (Written /\ ~blk.fell) =>
    \A i \in 1..Len(blk.slots) :
      \E t \in Translations(blk.cores[i], drv.lang) :
        blk.texts[i] = split_ws(blk.slots[i]).pre
                       \o unmask_chess_moves(t, blk.move_maps[i])
                       \o split_ws(blk.slots[i]).suf

(* C20 amended: after a block translation without fallback every slot i    *)
(* holds prefix_i + unmask(P_i) + suffix_i, in extraction order, where P_i *)
(* is a reply T(core_i) of the provider to core_i without its leading      *)
(* whitespace when core_i is not the first of its batch and without its    *)
(* trailing whitespace when it is not the last; so the results for         *)
(* different max_payload_chars agree up to whitespace at the edges of the  *)
(* translated cores.                                                       *)
C20_BatchedEqualsPerCoreTrimmed ==
  (Written /\ ~blk.fell) =>
    /\ Len(blk.out_parts) = Len(blk.slots)
    /\ Flatten(blk.chunks) = blk.cores
    /\ \A i \in 1..Len(blk.slots) :
         LET Before(k) == Len(Flatten(SubSeq(blk.chunks, 1, k - 1)))
             k == CHOOSE k \in 1..Len(blk.chunks) :
                    Before(k) < i /\ i <= Before(k + 1)
             Decoded(t) ==
               LET a == IF i = Before(k) + 1 THEN t ELSE LStrip(t)
               IN IF i = Before(k + 1) THEN a ELSE RStrip(a)
         IN /\ \E t \in Translations(blk.cores[i], drv.lang) :
                 blk.out_parts[i] = Decoded(t)
            /\ blk.texts[i] =
                 split_ws(blk.slots[i]).pre
                 \o unmask_chess_moves(blk.out_parts[i], blk.move_maps[i])
                 \o split_ws(blk.slots[i]).suf

C20_Witness ==
  /\ Written /\ ~blk.fell
  /\ Len(blk.slots) = 2
  /\ Len(blk.chunks) = 1
  /\ blk.out_parts[1] \notin Translations(blk.cores[1], drv.lang)
  /\ blk.texts[2] = <<ResultTok, " ", " ", "x">>

(* a position of the block translator between its entry and its return     *)
InBlock == {"block", "chunk", "chunk_wait", "core", "core_wait"}

(* C21: when a block translation ends canceled or with the fatal error of  *)
(* translate_text, in the first batch, a later batch or a per-core         *)
(* fallback call, no text of the block has been modified; the texts of a   *)
(* block are assigned in one step, after the last translation of the block *)
(* has been obtained, with one part per slot.                              *)
C21_AbortAtomic ==
  /\ [](pc \in InBlock => (blk.texts = blk.slots /\ ~blk.written))
  /\ [][(pc \in InBlock /\ pc' \in {"canceled", "error"}) =>
          (blk'.texts = blk.slots /\ blk'.slots = blk.slots
           /\ ~blk'.written /\ outFile' = outFile)]_vars
  /\ [][(pc \in InBlock /\ blk'.texts # blk.texts) =>
          /\ pc \in {"chunk", "core"}
          /\ tt.pc = "idle" /\ tt'.pc = "idle"
          /\ pc' \in {"loop", "throttle"}
          /\ blk.ci > Len(blk.chunks)
          /\ Len(blk'.out_parts) = Len(blk.slots)
          /\ blk'.written]_vars

C21_Witness ==
  /\ pc = "error"
  /\ blk.loopOver = "chunk"
  /\ Len(blk.parts) = 1
  /\ Len(blk.slots) = 2
  /\ blk.texts = blk.slots

(* C24: when the batch loop of a block ends without cancellation or error  *)
(* the parts collected are as many as the surviving slots, every batch     *)
(* having contributed one part per core, by match or by per-core fallback; *)
(* so the re-translation of all cores one by one (lines 529-534) is never  *)
(* entered and sends no request.                                           *)
C24_NoExtremeFallback ==
  /\ [](blk.loopOver # "cores")
  /\ [](pc \in {"chunk", "chunk_wait", "core", "core_wait"} =>
          /\ Flatten(blk.chunks) = blk.cores
          /\ Len(blk.cores) = Len(blk.slots)
          /\ Len(blk.out_parts) =
               Len(Flatten(SubSeq(blk.chunks, 1, blk.ci - 1))))
  /\ [][(pc = "chunk" /\ blk.ci > Len(blk.chunks) /\ pc' # pc) =>
          /\ Len(blk.out_parts) = Len(blk.slots)
          /\ blk'.out_parts = blk.out_parts
          /\ blk'.written
          /\ pc' \in {"loop", "throttle"}
          /\ tt' = tt /\ requested' = requested]_vars

C24_Witness ==
  /\ Written /\ blk.fell
  /\ Len(blk.chunks) = 1
  /\ Len(blk.chunks[1]) = 2
  /\ Len(blk.out_parts) = 2
  /\ blk.loopOver = "none"

(* every text location of a tree, also those no slot holds                 *)
RECURSIVE Paths(_, _)
Paths(node, path) ==
  {path} \cup UNION {Paths(node.kids[k], Append(path, k)) :
                       k \in 1..Len(node.kids)}

AllLocs(root) ==
  {[el |-> p, attr |-> a] : p \in Paths(root, <<>>), a \in {"text", "tail"}}

(* the tags and the order of the children, without the texts               *)
RECURSIVE Shape(_)
Shape(node) ==
  [tag |-> node.tag,
   kids |-> [k \in 1..Len(node.kids) |-> Shape(node.kids[k])]]

Range(seq) == {seq[i] : i \in 1..Len(seq)}

(* ref lies in the block, and the elements from the block down to the     *)
(* element of ref are kept                                                 *)
Translatable(root, ref, block) ==
  /\ Len(ref.el) >= Len(block)
  /\ SubSeq(ref.el, 1, Len(block)) = block
  /\ ~(ref.el = block /\ ref.attr = "tail")
  /\ \A n \in Len(block)..Len(ref.el) :
       Live(NodeAt(root, SubSeq(ref.el, 1, n)))

(* C22: a block translation changes only the texts of the surviving slots  *)
(* of the block: the tags and the order of the children stay as they are;  *)
(* a text is assigned only in the write-back of a block and only at a      *)
(* surviving slot of that block; a surviving slot lies in the block, not   *)
(* in its trailing text, not in or after a skipped element or a comment,   *)
(* and holds a text with a letter that is no line of moves; the texts sent *)
(* to the provider are made of the cores of the surviving slots, and no    *)
(* token of a discarded text is in them.                                   *)
C22_Frame ==
  /\ [][Shape(drv'.tree) = Shape(drv.tree)]_vars
  /\ [][\A loc \in AllLocs(drv.tree) :
          TextOf(drv'.tree, loc) # TextOf(drv.tree, loc) =>
            /\ loc \in Range(blk.refs)
            /\ pc \in {"chunk", "core"}
            /\ blk'.written]_vars
  /\ [](pc \in InBlock =>
          /\ Len(blk.refs) = Len(blk.slots)
          /\ Len(blk.cores) = Len(blk.slots)
          /\ \A i \in 1..Len(blk.refs) :
               /\ Translatable(drv.tree, blk.refs[i],
                               Blocks(drv.tree)[drv.bi + 1])
               /\ TextOf(drv.tree, blk.refs[i]) = blk.slots[i]
               /\ Lettered(blk.slots[i])
               /\ ~looks_like_chess_line(Strip(blk.slots[i]))
               /\ blk.cores[i] =
                    mask_chess_moves_in_text(Strip(blk.slots[i])).masked)
  /\ []((pc \in {"chunk_wait", "core_wait"} /\ tt.pc # "idle") =>
          /\ tt.arg \in Range(blk.cores)
                        \cup {Join(blk.chunks[k]) : k \in 1..Len(blk.chunks)}
          /\ \A j \in 1..Len(tt.arg) : tt.arg[j] \notin {Move, MoveNum, Comma})

C22_Witness ==
  /\ pc = "done"
  /\ Shape(drv.tree) = Shape(FramedDoc)
  /\ TextOf(drv.tree, [el |-> <<1>>, attr |-> "text"]) = <<"x", " ">>
  /\ \A loc \in AllLocs(FramedDoc) \ {[el |-> <<1>>, attr |-> "text"]} :
       TextOf(drv.tree, loc) = TextOf(FramedDoc, loc)
  /\ drv.writes = <<[el |-> <<1>>, attr |-> "text"]>>

(* C23: across the blocks of one driver call no text location, the text of *)
(* an element or the tail after a child, is assigned more than once, also  *)
(* when a selected block lies inside another selected block.               *)
C23_WrittenOnce ==
  \A i, j \in 1..Len(drv.writes) : i # j => drv.writes[i] # drv.writes[j]

(* C25: with retries = 4, when every request returns or fails and every    *)
(* sleep ends, a driver call on a finite document reaches one of the three *)
(* outcomes: output written, canceled, fatal error; the outcome reached    *)
(* does not change afterwards, and the output is written in the first      *)
(* outcome only.                                                           *)
C25_DriverTerminates ==
  /\ <>(pc \in Terminal)
  /\ [][(pc \in Terminal) => (pc' = pc /\ outFile' = outFile)]_vars
  /\ [](pc = "done" => outFile = "translated")
  /\ [](pc \in {"canceled", "error"} => outFile = "prior")

C25_Witness ==
  /\ pc = "done"
  /\ drv.total = MaxBlocks
  /\ blk.fell
  /\ Len(drv.events) = MaxBlocks
  /\ drv.throttle_s > 0
  /\ outFile = "translated"

(* C26: under every interleaving of Start, Cancel, the polling of the      *)
(* queue and the worker threads, a worker that has ended has put exactly   *)
(* one terminal item (DONE or ERROR) on the queue, as its last item, and a *)
(* worker that has not ended none; at most one worker is alive at a time;  *)
(* Start is disabled while a run's terminal item has not been polled, and  *)
(* a worker is started only when every earlier run's terminal item has     *)
(* been polled.                                                            *)
C26_OneTerminalEvent ==
  /\ [](\A r \in 1..Len(gui.threads) :
          LET ps == SelectSeq(gui.posted, LAMBDA item : item.run = r)
              ends == SelectSeq(ps, IsTerminalItem)
          IN IF gui.threads[r].pc # "ended" THEN ends = <<>>
             ELSE Len(ends) = 1 /\ IsTerminalItem(ps[Len(ps)]))
  /\ [](Cardinality({r \in 1..Len(gui.threads) :
                          gui.threads[r].pc # "ended"}) <= 1)
  /\ [](\A r \in 1..Len(gui.threads) :
          (\A i \in 1..Len(gui.handled) : gui.handled[i] # r) =>
            gui.btn_start = "disabled")
  /\ [][Len(gui.threads') > Len(gui.threads) =>
          /\ gui.btn_start = "normal"
          /\ gui'.btn_start = "disabled"
          /\ Len(gui.handled) = Len(gui.threads)
          /\ \A r \in 1..Len(gui.threads) :
               gui.threads[r].pc = "ended"]_vars

C26_Witness ==
  /\ Len(gui.threads) = 2
  /\ gui.handled = <<1, 2>>
  /\ stop
  /\ \E i \in 1..Len(gui.posted) :
       gui.posted[i] = [kind |-> "ERROR", run |-> 1]
  /\ \E i \in 1..Len(gui.posted) :
       gui.posted[i] = [kind |-> "PROGRESS", run |-> 2]
  /\ gui.posted[Len(gui.posted)] = [kind |-> "DONE", run |-> 2]
  /\ gui.btn_start = "normal"

====
